---------------------------- MODULE Spec2Model ----------------------------
(***************************************************************************)
(* Model of webhook-rs: the message validation engine of src/src/models.rs *)
(* (Interval, MessageContext, DiscordApiCompatible) and the send paths of  *)
(* src/src/client.rs (WebhookClient) and src/src/lib.rs (Webhook).         *)
(***************************************************************************)
EXTENDS Integers, Sequences, FiniteSets, TLC

VARIABLES
    client,           \* the client the caller constructed: its type and its url
    pc,               \* position of the caller: "building", "in_flight",
                      \* "reading_body", "done" (or "panicked")
    entry,            \* the public operation that was called ("none" while building)
    message,          \* the models::Message under construction / being sent
    message_context,  \* the MessageContext of WebhookClient::send
    checked,          \* what message.check_compatibility returned (<<>> before the call)
    validations,      \* number of validation passes run on the message
    requests,         \* HTTP POST bodies handed to the HTTP client, in order
    result,           \* what the called operation returned (<<>> before it returns)
    response,         \* the response the endpoint gave: its status and, once
                      \* read, the kind of its body (<<>> before it arrives)
    sends,            \* the frames of the calls of WebhookClient::send that run concurrently
    probe             \* one call of Interval::contains: interval, value and answer

vars == <<client, pc, entry, message, message_context, checked, validations, requests, result,
          response, sends, probe>>

----------------------------------------------------------------------------
(* Strings.  A Rust String is modelled as one character repeated n times    *)
(* (the tests build their long inputs with "a".repeat(n)); String::len is   *)
(* the length of the UTF-8 encoding in bytes.                               *)

\* Bytes of the UTF-8 encoding of one character.
Utf8Len(ch) == IF ch = "e_acute" THEN 2 ELSE 1

\* str::repeat: the empty string is the same string whatever the character.
Repeat(ch, n) == IF n = 0 THEN [ch |-> "a", n |-> 0] ELSE [ch |-> ch, n |-> n]

\* String::len (bytes).
len(s) == s.n * Utf8Len(s.ch)

\* Option<T>: None is the empty sequence, Some(x) the one-element sequence.
None == <<>>
Some(x) == <<x>>
is_some(o) == Len(o) = 1
is_none(o) == Len(o) = 0
unwrap(o) == o[1]

\* Result<(), String>: Ok(()) is the empty sequence, Err(e) holds the message.
Ok == <<>>
Err(e) == <<e>>
is_ok(r) == Len(r) = 0
is_err(r) == Len(r) = 1
unwrap_err(r) == r[1]

\* A combinator that keeps the last error instead of the first.
ResultAnd_last_error(acc, res) == IF is_err(res) THEN res ELSE acc

\* Result::and: the argument has already been evaluated by the caller.
ResultAnd(acc, res) == IF is_ok(acc) THEN res ELSE acc

----------------------------------------------------------------------------
(* Interval and the limits of the Discord API.                              *)

from_min_max(min_allowed, max_allowed) ==
    [min_allowed |-> min_allowed, max_allowed |-> max_allowed]

\* Interval::contains with both bounds excluded.
contains_exclusive(interval, value) ==
    interval.min_allowed < value /\ interval.max_allowed > value

contains(interval, value) ==
    interval.min_allowed <= value /\ interval.max_allowed >= value

action_row_count_interval == from_min_max(0, 5)
label_len_interval == from_min_max(0, 80)
\* The custom id interval one short at the top.
custom_id_len_interval_short == from_min_max(1, 99)
custom_id_len_interval == from_min_max(1, 100)
\* The total one short at the top.
embed_total_text_len_interval_short == from_min_max(0, 5999)
embed_total_text_len_interval == from_min_max(0, 6000)
title_len_interval == from_min_max(0, 256)
description_len_interval == from_min_max(0, 4096)
fields_len_interval == from_min_max(0, 25)
field_name_len_interval == from_min_max(0, 256)
field_value_len_interval == from_min_max(0, 1024)
footer_text_len_interval == from_min_max(0, 2048)
author_name_len_interval == from_min_max(0, 256)
button_count_interval == from_min_max(0, 5)

\* The error messages.  format!("{} ({}) not in the [{}, {}] interval", ...)
IntervalError(field_name, value, interval) ==
    [kind |-> "interval", field_name |-> field_name, value |-> value,
     min_allowed |-> interval.min_allowed, max_allowed |-> interval.max_allowed]

\* format!("Attempt to use the same custom ID ({}) twice!", id)
DuplicateError(id) == [kind |-> "twice", id |-> id]
StyleError == [kind |-> "Button style must be set!"]
UrlError == [kind |-> "Url of a Link button must be set!"]
CustomIdError == [kind |-> "Custom ID of a NonLink button must be set!"]
EmptyRowError == [kind |-> "Empty action row detected!"]

interval_check(interval, value_to_test, field_name) ==
    IF ~contains(interval, value_to_test)
    THEN Err(IntervalError(field_name, value_to_test, interval))
    ELSE Ok

----------------------------------------------------------------------------
(* MessageContext.  Every operation returns the context it leaves behind    *)
(* (ctx) and its return value (res).                                        *)

MessageContext_new ==
    [custom_ids |-> {}, embeds_character_counter |-> 0,
     button_count_in_action_row |-> 0]

Ret(ctx, res) == [ctx |-> ctx, res |-> res]

\* register_custom_id that forgets the ids: nothing is inserted into the set.
register_custom_id_forgetful(ctx, id) ==
    LET r == interval_check(custom_id_len_interval, len(id), "Custom ID length")
    IN  IF is_err(r) THEN Ret(ctx, r) ELSE Ret(ctx, Ok)

register_custom_id(ctx, id) ==
    LET r == interval_check(custom_id_len_interval, len(id), "Custom ID length")
    IN  IF is_err(r) THEN Ret(ctx, r)
        ELSE IF id \in ctx.custom_ids
             THEN Ret(ctx, Err(DuplicateError(id)))
             ELSE Ret([ctx EXCEPT !.custom_ids = @ \cup {id}], Ok)

\* embed.fields.iter().for_each(|f| counter += f.name.len() + f.value.len()),
\* summed over the fields lo..hi by halves.
RECURSIVE FieldsTextLen(_, _, _)
FieldsTextLen(fields, lo, hi) ==
    IF lo > hi THEN 0
    ELSE IF lo = hi THEN len(fields[lo].name) + len(fields[lo].value)
    ELSE LET mid == (lo + hi) \div 2
         IN  FieldsTextLen(fields, lo, mid) + FieldsTextLen(fields, mid + 1, hi)

\* The text of one embed that counts toward the message-wide total.
EmbedTextLen(embed) ==
      (IF is_some(embed.title) THEN len(unwrap(embed.title)) ELSE 0)
    + (IF is_some(embed.description) THEN len(unwrap(embed.description)) ELSE 0)
    + (IF is_some(embed.footer) THEN len(unwrap(embed.footer).text) ELSE 0)
    + (IF is_some(embed.author) THEN len(unwrap(embed.author).name) ELSE 0)
    + FieldsTextLen(embed.fields, 1, Len(embed.fields))

\* register_embed that counts each embed on its own: the counter is set to
\* the text of this embed instead of being added to.
register_embed_per_embed(ctx, embed) ==
    LET c == [ctx EXCEPT !.embeds_character_counter = EmbedTextLen(embed)]
    IN  Ret(c, interval_check(embed_total_text_len_interval,
                              c.embeds_character_counter,
                              "Character count across all embeds"))

\* register_embed that takes the addition back when the limit is exceeded.
register_embed_rolled_back(ctx, embed) ==
    LET c == [ctx EXCEPT !.embeds_character_counter = @ + EmbedTextLen(embed)]
        r == interval_check(embed_total_text_len_interval,
                            c.embeds_character_counter,
                            "Character count across all embeds")
    IN  IF is_err(r) THEN Ret(ctx, r) ELSE Ret(c, r)

register_embed(ctx, embed) ==
    LET c == [ctx EXCEPT !.embeds_character_counter = @ + EmbedTextLen(embed)]
    IN  Ret(c, interval_check(embed_total_text_len_interval,
                              c.embeds_character_counter,
                              "Character count across all embeds"))

\* register_button that counts the button before it registers the id.
register_button_count_first(ctx, id) ==
    LET c == [ctx EXCEPT !.button_count_in_action_row = @ + 1]
        n == interval_check(button_count_interval, c.button_count_in_action_row,
                            "Button count")
    IN  IF is_err(n) THEN Ret(c, n) ELSE register_custom_id(c, id)

register_button(ctx, id) ==
    LET r == register_custom_id(ctx, id)
    IN  IF is_err(r.res) THEN r
        ELSE LET c == [r.ctx EXCEPT !.button_count_in_action_row = @ + 1]
             IN  Ret(c, interval_check(button_count_interval,
                                       c.button_count_in_action_row,
                                       "Button count"))

\* register_action_row that leaves the counter of the previous row.
register_action_row_no_reset(ctx) == ctx

register_action_row(ctx) == [ctx EXCEPT !.button_count_in_action_row = 0]


----------------------------------------------------------------------------
(* The entity tree and its builders.                                        *)

\* LinkButton::new / RegularButton::new followed by the setters the caller
\* chains: a builder is the record of the fields it holds.
LinkButton(label, url) == [label |-> label, url |-> url]
RegularButton(label, custom_id, style) ==
    [label |-> label, custom_id |-> custom_id, style |-> style]

\* Button::new
Button(style, label, url, custom_id) ==
    [component_type |-> 2, style |-> style, label |-> label, url |-> url,
     custom_id |-> custom_id]

\* NonLinkButtonStyle::get_button_style
get_button_style(s) == s

\* impl ToSerializableButton for LinkButton
LinkButton_to_serializable_button(b) ==
    Button(Some("Link"), b.label, b.url, None)

\* impl ToSerializableButton for RegularButton
RegularButton_to_serializable_button(b) ==
    Button(IF is_some(b.style) THEN Some(get_button_style(unwrap(b.style))) ELSE None,
           b.label, None, b.custom_id)

\* Embed::new followed by title/description/footer/author setters; fields are
\* added by Embed::field.
Embed_new ==
    [title |-> None, description |-> None, footer |-> None, image |-> None,
     thumbnail |-> None, author |-> None, fields |-> <<>>]

EmbedField_new(name, value) == [name |-> name, value |-> value]
EmbedFooter_new(text) == [text |-> text]
EmbedAuthor_new(name) == [name |-> name]

Message_new ==
    [content |-> None, username |-> None, avatar_url |-> None,
     embeds |-> <<>>, action_rows |-> <<>>]

----------------------------------------------------------------------------
(* DiscordApiCompatible::check_compatibility, one operator per entity.      *)

EmbedAuthor_check_compatibility(author, ctx) ==
    Ret(ctx, interval_check(author_name_len_interval, len(author.name),
                            "Embed author name length"))

EmbedFooter_check_compatibility(footer, ctx) ==
    Ret(ctx, interval_check(footer_text_len_interval, len(footer.text),
                            "Embed footer text length"))

\* EmbedField::check_compatibility that checks the value only.
EmbedField_check_compatibility_value_only(field, ctx) ==
    Ret(ctx, interval_check(field_value_len_interval, len(field.value),
                            "Embed field value length"))

EmbedField_check_compatibility(field, ctx) ==
    LET v == interval_check(field_value_len_interval, len(field.value),
                            "Embed field value length")
    IN  IF is_err(v) THEN Ret(ctx, v)
        ELSE Ret(ctx, interval_check(field_name_len_interval, len(field.name),
                                     "Embed field name length"))

\* for field in self.fields.iter() { field.check_compatibility(context)?; }
\* The loop returns at the first field whose check fails; a field check
\* leaves the context as it is.
EmbedFieldsLoop(fields, ctx) ==
    LET failing == { k \in DOMAIN fields :
                        is_err(EmbedField_check_compatibility(fields[k], ctx).res) }
    IN  IF failing = {} THEN Ret(ctx, Ok)
        ELSE LET first == CHOOSE k \in failing : \A j \in failing : k <= j
             IN  EmbedField_check_compatibility(fields[first], ctx)

\* Embed::check_compatibility with the footer checked before the author and
\* the embed registered after its own limits.
Embed_check_compatibility_reordered(embed, ctx) ==
    LET r0 == register_embed(ctx, embed)
        r1 == interval_check(fields_len_interval, Len(embed.fields), "Field count")
        r2 == IF is_some(embed.title)
              THEN interval_check(title_len_interval, len(unwrap(embed.title)),
                                  "Embed title length")
              ELSE Ok
        r3 == IF is_some(embed.description)
              THEN interval_check(description_len_interval,
                                  len(unwrap(embed.description)),
                                  "Embed description length")
              ELSE Ok
        r4 == IF is_some(embed.author)
              THEN EmbedAuthor_check_compatibility(unwrap(embed.author), ctx).res
              ELSE Ok
        r5 == IF is_some(embed.footer)
              THEN EmbedFooter_check_compatibility(unwrap(embed.footer), ctx).res
              ELSE Ok
        r6 == EmbedFieldsLoop(embed.fields, ctx).res
    IN  IF is_err(r1) THEN Ret(ctx, r1)
        ELSE IF is_err(r2) THEN Ret(ctx, r2)
        ELSE IF is_err(r3) THEN Ret(ctx, r3)
        ELSE IF is_err(r5) THEN Ret(ctx, r5)
        ELSE IF is_err(r4) THEN Ret(ctx, r4)
        ELSE IF is_err(r6) THEN Ret(ctx, r6)
        ELSE r0

Embed_check_compatibility(embed, ctx) ==
    LET r0 == register_embed(ctx, embed)
        c  == r0.ctx
        r1 == interval_check(fields_len_interval, Len(embed.fields), "Field count")
        r2 == IF is_some(embed.title)
              THEN interval_check(title_len_interval, len(unwrap(embed.title)),
                                  "Embed title length")
              ELSE Ok
        r3 == IF is_some(embed.description)
              THEN interval_check(description_len_interval,
                                  len(unwrap(embed.description)),
                                  "Embed description length")
              ELSE Ok
        r4 == IF is_some(embed.author)
              THEN EmbedAuthor_check_compatibility(unwrap(embed.author), c).res
              ELSE Ok
        r5 == IF is_some(embed.footer)
              THEN EmbedFooter_check_compatibility(unwrap(embed.footer), c).res
              ELSE Ok
    IN  IF is_err(r0.res) THEN r0
        ELSE IF is_err(r1) THEN Ret(c, r1)
        ELSE IF is_err(r2) THEN Ret(c, r2)
        ELSE IF is_err(r3) THEN Ret(c, r3)
        ELSE IF is_err(r4) THEN Ret(c, r4)
        ELSE IF is_err(r5) THEN Ret(c, r5)
        ELSE EmbedFieldsLoop(embed.fields, c)

\* Button::check_compatibility that asks for a style only when the button
\* carries no custom id.
Button_check_compatibility_style_optional(b, ctx) ==
    LET l == IF is_some(b.label)
             THEN interval_check(label_len_interval, len(unwrap(b.label)),
                                 "Label length")
             ELSE Ok
    IN  IF is_err(l) THEN Ret(ctx, l)
        ELSE IF is_none(b.style) /\ is_none(b.custom_id) THEN Ret(ctx, Err(StyleError))
        ELSE IF is_some(b.style) /\ unwrap(b.style) = "Link"
             THEN IF is_none(b.url) THEN Ret(ctx, Err(UrlError))
                  ELSE Ret(ctx, Ok)
             ELSE IF is_some(b.custom_id)
                  THEN register_button(ctx, unwrap(b.custom_id))
                  ELSE Ret(ctx, Err(CustomIdError))

\* Button::check_compatibility with the label checked after the style branch.
Button_check_compatibility_label_last(b, ctx) ==
    LET l == IF is_some(b.label)
             THEN interval_check(label_len_interval, len(unwrap(b.label)),
                                 "Label length")
             ELSE Ok
        r == IF is_none(b.style) THEN Ret(ctx, Err(StyleError))
             ELSE IF unwrap(b.style) = "Link"
                  THEN IF is_none(b.url) THEN Ret(ctx, Err(UrlError))
                       ELSE Ret(ctx, Ok)
             ELSE IF is_some(b.custom_id)
                  THEN register_button(ctx, unwrap(b.custom_id))
                  ELSE Ret(ctx, Err(CustomIdError))
    IN  IF is_err(r.res) THEN r ELSE Ret(r.ctx, l)

\* Button::check_compatibility that counts an accepted link button toward
\* the buttons of its row.
Button_check_compatibility_link_counted(b, ctx) ==
    LET l == IF is_some(b.label)
             THEN interval_check(label_len_interval, len(unwrap(b.label)),
                                 "Label length")
             ELSE Ok
    IN  IF is_err(l) THEN Ret(ctx, l)
        ELSE IF is_none(b.style) THEN Ret(ctx, Err(StyleError))
        ELSE IF unwrap(b.style) = "Link"
             THEN IF is_none(b.url) THEN Ret(ctx, Err(UrlError))
                  ELSE Ret([ctx EXCEPT !.button_count_in_action_row = @ + 1], Ok)
             ELSE IF is_some(b.custom_id)
                  THEN register_button(ctx, unwrap(b.custom_id))
                  ELSE Ret(ctx, Err(CustomIdError))

Button_check_compatibility(b, ctx) ==
    LET l == IF is_some(b.label)
             THEN interval_check(label_len_interval, len(unwrap(b.label)),
                                 "Label length")
             ELSE Ok
    IN  IF is_err(l) THEN Ret(ctx, l)
        ELSE IF is_none(b.style) THEN Ret(ctx, Err(StyleError))
        ELSE IF unwrap(b.style) = "Link"
             THEN IF is_none(b.url) THEN Ret(ctx, Err(UrlError))
                  ELSE Ret(ctx, Ok)
             ELSE IF is_some(b.custom_id)
                  THEN register_button(ctx, unwrap(b.custom_id))
                  ELSE Ret(ctx, Err(CustomIdError))

\* self.components.iter().fold(Ok(()), |acc, component|
\*     acc.and(component.check_compatibility(context)))
\* The argument of `and` is evaluated before `and` is called, so every
\* component is checked against the context whatever acc holds.  The state
\* of a fold is the iterator (rest), the context and the accumulator.
FoldState(rest, ctx, acc) == [rest |-> rest, ctx |-> ctx, acc |-> acc]

RECURSIVE FoldComponents(_)
FoldComponents(it) ==
    IF it.rest = <<>> THEN Ret(it.ctx, it.acc)
    ELSE LET r == Button_check_compatibility(Head(it.rest), it.ctx)
         IN  FoldComponents(FoldState(Tail(it.rest), r.ctx, ResultAnd(it.acc, r.res)))

\* ActionRow::check_compatibility without the check for an empty row.
ActionRow_check_compatibility_empty_allowed(row, ctx) ==
    FoldComponents(FoldState(row, register_action_row(ctx), Ok))

ActionRow_check_compatibility(row, ctx) ==
    LET c == register_action_row(ctx)
    IN  IF row = <<>> THEN Ret(c, Err(EmptyRowError))
        ELSE FoldComponents(FoldState(row, c, Ok))

\* self.embeds.iter().fold(Ok(()), |acc, emb| acc.and(emb.check_compatibility(context)))
RECURSIVE FoldEmbeds(_)
FoldEmbeds(it) ==
    IF it.rest = <<>> THEN Ret(it.ctx, it.acc)
    ELSE LET r == Embed_check_compatibility(Head(it.rest), it.ctx)
         IN  FoldEmbeds(FoldState(Tail(it.rest), r.ctx, ResultAnd(it.acc, r.res)))

\* self.action_rows.iter().fold(Ok(()), |acc, row| acc.and(row.check_compatibility(context)))
RECURSIVE FoldActionRows(_)
FoldActionRows(it) ==
    IF it.rest = <<>> THEN Ret(it.ctx, it.acc)
    ELSE LET r == ActionRow_check_compatibility(Head(it.rest), it.ctx)
         IN  FoldActionRows(FoldState(Tail(it.rest), r.ctx, ResultAnd(it.acc, r.res)))

\* Message::check_compatibility with the action-row count checked after the
\* embeds instead of before them.
Message_check_compatibility_count_late(msg, ctx) ==
    LET r0 == interval_check(action_row_count_interval, Len(msg.action_rows),
                             "Action row count")
        e  == FoldEmbeds(FoldState(msg.embeds, ctx, Ok))
    IN  IF is_err(e.res) THEN e
        ELSE IF is_err(r0) THEN Ret(e.ctx, r0)
        ELSE FoldActionRows(FoldState(msg.action_rows, e.ctx, Ok))

Message_check_compatibility(msg, ctx) ==
    LET r0 == interval_check(action_row_count_interval, Len(msg.action_rows),
                             "Action row count")
        e  == FoldEmbeds(FoldState(msg.embeds, ctx, Ok))
    IN  IF is_err(r0) THEN Ret(ctx, r0)
        ELSE IF is_err(e.res) THEN e
        ELSE FoldActionRows(FoldState(msg.action_rows, e.ctx, Ok))

----------------------------------------------------------------------------
(* The wire format: serde_json::to_string(message).                         *)

\* The JSON values: null, a string, a number; an Option serializes as null
\* or as its content.
JsonNull == [null |-> TRUE]
JsonString(s) == [string |-> s]
JsonOptionString(o) == IF is_some(o) THEN JsonString(unwrap(o)) ELSE JsonNull
JsonNumber(n) == [number |-> n]

\* impl Serialize for ButtonStyles
ButtonStyles_serialize(style) ==
    CASE style = "Primary"   -> JsonNumber(1)
      [] style = "Secondary" -> JsonNumber(2)
      [] style = "Success"   -> JsonNumber(3)
      [] style = "Danger"    -> JsonNumber(4)
      [] style = "Link"      -> JsonNumber(5)


Button_serialize(b) ==
    [type |-> JsonNumber(b.component_type),
     style |-> IF is_some(b.style) THEN ButtonStyles_serialize(unwrap(b.style))
               ELSE JsonNull,
     label |-> JsonOptionString(b.label),
     custom_id |-> JsonOptionString(b.custom_id),
     url |-> JsonOptionString(b.url)]

ActionRow_serialize(row) ==
    [type |-> JsonNumber(1), components |-> [k \in DOMAIN row |-> Button_serialize(row[k])]]

Embed_serialize(e) ==
    [type |-> "rich",
     title |-> JsonOptionString(e.title),
     description |-> JsonOptionString(e.description),
     footer |-> IF is_some(e.footer)
                THEN [text |-> JsonString(unwrap(e.footer).text)] ELSE JsonNull,
     image |-> IF is_some(e.image)
               THEN [url |-> JsonString(unwrap(e.image))] ELSE JsonNull,
     thumbnail |-> IF is_some(e.thumbnail)
                   THEN [url |-> JsonString(unwrap(e.thumbnail))] ELSE JsonNull,
     author |-> IF is_some(e.author)
                THEN [name |-> JsonString(unwrap(e.author).name)] ELSE JsonNull,
     fields |-> [k \in DOMAIN e.fields |->
                    [name |-> JsonString(e.fields[k].name),
                     value |-> JsonString(e.fields[k].value)]]]

Message_serialize(msg) ==
    [content |-> JsonOptionString(msg.content),
     username |-> JsonOptionString(msg.username),
     avatar_url |-> JsonOptionString(msg.avatar_url),
     embeds |-> [k \in DOMAIN msg.embeds |-> Embed_serialize(msg.embeds[k])],
     components |-> [k \in DOMAIN msg.action_rows |->
                        ActionRow_serialize(msg.action_rows[k])]]

----------------------------------------------------------------------------
(* The older API of src/src/lib.rs: Webhook, with a Message and an          *)
(* EmbedBuilder of its own.  Its message has no action rows and nothing     *)
(* validates it.                                                            *)

JsonBool(b) == [bool |-> b]

\* EmbedBuilder::new.  Of the twelve attributes the closures of the model
\* set the title, the type, the description and the fields.
lib_EmbedBuilder_new ==
    [title |-> None, type_ |-> None, description |-> None, fields |-> <<>>]

\* EmbedField::new
lib_EmbedField_new(name, value, inline) ==
    [name |-> name, value |-> value, inline |-> inline]

\* EmbedBuilder::field: the field is pushed, however many there are.
lib_EmbedBuilder_field(em, name, value, inline) ==
    [em EXCEPT !.fields = Append(@, lib_EmbedField_new(name, value, inline))]

\* for _ in 0..n { em.field("None", "a", false); }
lib_WithFields(em, n) ==
    [em EXCEPT !.fields =
        @ \o [k \in 1..n |-> lib_EmbedField_new(Repeat("n", 4), Repeat("a", 1), FALSE)]]

\* EmbedBuilder::build: the Embed holds a clone of every attribute.
lib_EmbedBuilder_build(em) ==
    [title |-> em.title, type_ |-> em.type_, description |-> em.description,
     fields |-> em.fields]

\* Message::new of lib.rs
lib_Message_new ==
    [content |-> None, username |-> None, avatar_url |-> None, tts |-> None,
     embeds |-> <<>>]

\* #[derive(Serialize)] struct Embed of lib.rs: every attribute is a key, an
\* attribute that is None is null; the type is null unless type_ was called.
lib_Embed_serialize(e) ==
    [title |-> JsonOptionString(e.title),
     type |-> JsonOptionString(e.type_),
     description |-> JsonOptionString(e.description),
     url |-> JsonNull,
     timestamp |-> JsonNull,
     color |-> JsonNull,
     fields |-> [k \in DOMAIN e.fields |->
                    [name |-> JsonString(e.fields[k].name),
                     value |-> JsonString(e.fields[k].value),
                     inline |-> JsonBool(e.fields[k].inline)]],
     footer |-> JsonNull,
     image |-> JsonNull,
     thumbnail |-> JsonNull,
     author |-> JsonNull,
     video |-> JsonNull]

\* #[derive(Serialize)] struct Message of lib.rs: content and embeds are
\* always keys; username, avatar_url and tts are skipped when they are None
\* (skip_serializing_if = "Option::is_none"); there is no components key.
lib_Message_serialize(msg) ==
    LET keys == {"content", "embeds"}
                \cup (IF is_some(msg.username) THEN {"username"} ELSE {})
                \cup (IF is_some(msg.avatar_url) THEN {"avatar_url"} ELSE {})
                \cup (IF is_some(msg.tts) THEN {"tts"} ELSE {})
    IN  [k \in keys |->
            CASE k = "content"    -> JsonOptionString(msg.content)
              [] k = "username"   -> JsonString(unwrap(msg.username))
              [] k = "avatar_url" -> JsonString(unwrap(msg.avatar_url))
              [] k = "tts"        -> JsonBool(unwrap(msg.tts))
              [] k = "embeds"     ->
                    [j \in DOMAIN msg.embeds |-> lib_Embed_serialize(msg.embeds[j])]]

----------------------------------------------------------------------------
(* Inputs: what the caller's closures put into the message.                 *)

\* Most embeds one message is given.
MaxEmbeds == 3
\* Action rows a message may be given beyond the limit of 5.
ExtraRows == 1

\* The character the custom ids of the row at position i (from 0) are made of.
RowChar(i) == <<"a", "b", "c", "d", "e", "f", "g", "h", "i">>[i + 1]

\* The custom id of button j (from 1) of the row at position i (from 0), as
\* the tests' i.to_string() + &j.to_string(): distinct for distinct (i, j).
IdAt(i, j) == Repeat(RowChar(i), j)

Url == Repeat("u", 19)
Label(n) == Repeat("l", n)

\* row.regular_button(|button| ...) and row.link_button(|button| ...)
ActionRow_regular_button(row, builder) ==
    Append(row, RegularButton_to_serializable_button(builder))
ActionRow_link_button(row, builder) ==
    Append(row, LinkButton_to_serializable_button(builder))

\* for j in 0..n { row.regular_button(|btn| btn.style(Primary).custom_id(..)) }
RECURSIVE RegularRow(_, _)
RegularRow(i, n) ==
    IF n = 0 THEN <<>>
    ELSE ActionRow_regular_button(RegularRow(i, n - 1),
            RegularButton(None, Some(IdAt(i, n)), Some("Primary")))

\* for _ in 0..n { row.link_button(|btn| btn.url(..)) }
RECURSIVE LinkRow(_)
LinkRow(n) ==
    IF n = 0 THEN <<>>
    ELSE ActionRow_link_button(LinkRow(n - 1), LinkButton(None, Some(Url)))

\* One regular button with the given label, custom id and style.
OneRegular(label, custom_id, style) ==
    ActionRow_regular_button(<<>>, RegularButton(label, custom_id, style))

\* One link button with the given label and url.
OneLink(label, url) == ActionRow_link_button(<<>>, LinkButton(label, url))

\* The closures given to Message::action_row, by name; i is the position
\* (from 0) the row takes in the message.
Row(tag, i) ==
    CASE tag = "empty"       -> <<>>
      [] tag = "reg1"        -> RegularRow(i, 1)
      [] tag = "reg5"        -> RegularRow(i, 5)
      [] tag = "reg6"        -> RegularRow(i, 6)
      [] tag = "link1"       -> LinkRow(1)
      [] tag = "link6"       -> LinkRow(6)
      [] tag = "reg5_link1"  -> ActionRow_link_button(RegularRow(i, 5),
                                    LinkButton(None, Some(Url)))
      [] tag = "reg5_dup"    -> ActionRow_regular_button(RegularRow(i, 5),
                                    RegularButton(None, Some(IdAt(i, 1)), Some("Primary")))
      [] tag = "dup_in_row"  -> ActionRow_regular_button(RegularRow(i, 1),
                                    RegularButton(None, Some(IdAt(i, 1)), Some("Primary")))
      [] tag = "first_id"    -> RegularRow(0, 1)
      [] tag = "no_style"    -> OneRegular(None, Some(IdAt(i, 1)), None)
      [] tag = "no_id"       -> OneRegular(None, None, Some("Primary"))
      [] tag = "no_url"      -> OneLink(Some(Label(4)), None)
      [] tag = "link_label"  -> OneLink(Some(Label(4)), Some(Url))
      [] tag = "id_len_0"    -> OneRegular(None, Some(Repeat(RowChar(i), 0)), Some("Danger"))
      [] tag = "id_len_100"  -> OneRegular(None, Some(Repeat(RowChar(i), 100)), Some("Success"))
      [] tag = "id_len_101"  -> OneRegular(None, Some(Repeat(RowChar(i), 101)), Some("Secondary"))
      [] tag = "label_80"    -> OneRegular(Some(Label(80)), Some(IdAt(i, 1)), Some("Primary"))
      [] tag = "label_81"    -> OneRegular(Some(Label(81)), Some(IdAt(i, 1)), Some("Primary"))
      [] tag = "label_80_mb" -> OneRegular(Some(Repeat("e_acute", 80)),
                                    Some(IdAt(i, 1)), Some("Primary"))
      [] tag = "label_81_bare" -> OneRegular(Some(Label(81)), None, None)
      [] tag = "label_81_link" -> OneLink(Some(Label(81)), None)

\* Embed::field: panics when the embed already holds the maximum of fields.
\* A builder state is the embed and whether the call panicked.
Embed_field(st, name, value) ==
    IF st.panicked THEN st
    ELSE IF Len(st.embed.fields) = fields_len_interval.max_allowed
         THEN [st EXCEPT !.panicked = TRUE]
         ELSE [st EXCEPT !.embed.fields = Append(@, EmbedField_new(name, value))]

\* for _ in 0..n { embed.field("None", "a", false); }: n calls of Embed_field,
\* of which those beyond the room left panic.
WithFields(st, n) ==
    LET room == fields_len_interval.max_allowed - Len(st.embed.fields)
        new  == [k \in 1..(IF n <= room THEN n ELSE room) |->
                    EmbedField_new(Repeat("n", 4), Repeat("a", 1))]
    IN  IF st.panicked \/ n = 0 THEN st
        ELSE [embed |-> [st.embed EXCEPT !.fields = @ \o new],
              panicked |-> n > room]

Building(embed) == [embed |-> embed, panicked |-> FALSE]

\* The closures given to Message::embed, by name.
EmbedOf(tag) ==
    CASE tag = "desc_max"   ->
            Building([Embed_new EXCEPT !.description = Some(Repeat("a", 4096))])
      [] tag = "desc_1904"  ->
            Building([Embed_new EXCEPT !.description = Some(Repeat("a", 1904))])
      [] tag = "desc_1905"  ->
            Building([Embed_new EXCEPT !.description = Some(Repeat("a", 1905))])
      [] tag = "basic"      ->
            Embed_field(
                Building([Embed_new EXCEPT
                    !.title = Some(Repeat("t", 4)),
                    !.description = Some(Repeat("d", 4)),
                    !.footer = Some(EmbedFooter_new(Repeat("f", 4))),
                    !.image = Some(Url),
                    !.thumbnail = Some(Url),
                    !.author = Some(EmbedAuthor_new(Repeat("a", 4)))]),
                Repeat("n", 4), Repeat("v", 4))
      [] tag = "title_over" ->
            Building([Embed_new EXCEPT !.title = Some(Repeat("a", 257))])
      [] tag = "footer_max" ->
            Building([Embed_new EXCEPT
                !.footer = Some(EmbedFooter_new(Repeat("a", 2048)))])
      [] tag = "title_mb"   ->
            Building([Embed_new EXCEPT !.title = Some(Repeat("e_acute", 256))])
      [] tag = "title_max"  ->
            Building([Embed_new EXCEPT !.title = Some(Repeat("a", 256))])
      [] tag = "desc_over"  ->
            Building([Embed_new EXCEPT !.description = Some(Repeat("a", 4097))])
      [] tag = "footer_over" ->
            Building([Embed_new EXCEPT
                !.footer = Some(EmbedFooter_new(Repeat("a", 2049)))])
      [] tag = "author_max" ->
            Building([Embed_new EXCEPT
                !.author = Some(EmbedAuthor_new(Repeat("a", 256)))])
      [] tag = "author_over" ->
            Building([Embed_new EXCEPT
                !.author = Some(EmbedAuthor_new(Repeat("a", 257)))])
      [] tag = "name_max"   ->
            Embed_field(Building(Embed_new), Repeat("n", 256), Repeat("v", 1))
      [] tag = "name_over"  ->
            Embed_field(Building(Embed_new), Repeat("n", 257), Repeat("v", 1))
      [] tag = "value_max"  ->
            Embed_field(Building(Embed_new), Repeat("n", 1), Repeat("v", 1024))
      [] tag = "value_over" ->
            Embed_field(Building(Embed_new), Repeat("n", 1), Repeat("v", 1025))
      [] tag = "total_and_desc" ->
            Building([Embed_new EXCEPT
                !.description = Some(Repeat("a", 4097)),
                !.footer = Some(EmbedFooter_new(Repeat("a", 2048)))])
      [] tag = "title_desc_over" ->
            Building([Embed_new EXCEPT
                !.title = Some(Repeat("a", 257)),
                !.description = Some(Repeat("a", 4097))])
      [] tag = "author_footer_over" ->
            Building([Embed_new EXCEPT
                !.footer = Some(EmbedFooter_new(Repeat("a", 2049))),
                !.author = Some(EmbedAuthor_new(Repeat("a", 257)))])
      [] tag = "footer_field_over" ->
            Embed_field(
                Building([Embed_new EXCEPT
                    !.footer = Some(EmbedFooter_new(Repeat("a", 2049)))]),
                Repeat("n", 257), Repeat("v", 1))
      [] tag = "fields_2nd_3rd" ->
            Embed_field(
                Embed_field(
                    Embed_field(Building(Embed_new), Repeat("n", 4), Repeat("v", 4)),
                    Repeat("n", 4), Repeat("v", 1025)),
                Repeat("n", 257), Repeat("v", 4))
      [] tag = "fields_25"  -> WithFields(Building(Embed_new), 25)
      [] tag = "fields_26"  -> WithFields(Building(Embed_new), 26)

\* The families of closures one caller draws from: a message is built from
\* the rows and embeds of one family, and with the setters of content,
\* username and avatar_url where the family has them.
Families ==
    { [rows |-> {"empty", "reg5", "reg6"},                  embeds |-> {}, setters |-> FALSE],
      [rows |-> {"reg1", "first_id", "dup_in_row"},         embeds |-> {}, setters |-> FALSE],
      [rows |-> {"no_style", "no_id", "reg1"},              embeds |-> {}, setters |-> FALSE],
      [rows |-> {"no_url", "link_label", "link6"},          embeds |-> {}, setters |-> FALSE],
      [rows |-> {"id_len_0", "id_len_100", "id_len_101"},   embeds |-> {}, setters |-> FALSE],
      [rows |-> {"reg5_link1", "link1", "reg5"},            embeds |-> {}, setters |-> FALSE],
      [rows |-> {"label_80", "label_81", "first_id"},       embeds |-> {}, setters |-> FALSE],
      [rows |-> {"reg5_dup", "reg1"},                       embeds |-> {}, setters |-> FALSE],
      [rows |-> {"label_81_bare", "label_81_link", "label_81"}, embeds |-> {}, setters |-> FALSE],
      [rows |-> {"empty"},  embeds |-> {"desc_max", "basic", "title_over"}, setters |-> FALSE],
      [rows |-> {"reg1"},   embeds |-> {"desc_max", "desc_1904", "desc_1905"}, setters |-> FALSE],
      [rows |-> {},         embeds |-> {"fields_25", "fields_26", "footer_max"}, setters |-> FALSE],
      [rows |-> {},         embeds |-> {"title_max", "title_over", "desc_over"}, setters |-> FALSE],
      [rows |-> {},         embeds |-> {"footer_over", "author_max", "author_over"}, setters |-> FALSE],
      [rows |-> {},         embeds |-> {"name_max", "name_over", "value_max"}, setters |-> FALSE],
      [rows |-> {"reg1"},   embeds |-> {"value_over", "value_max", "basic"}, setters |-> TRUE],
      [rows |-> {"label_80_mb", "label_80", "reg1"},        embeds |-> {}, setters |-> FALSE],
      [rows |-> {},         embeds |-> {"title_mb", "title_max", "basic"}, setters |-> FALSE],
      [rows |-> {},         embeds |-> {"total_and_desc", "title_desc_over", "author_footer_over"}, setters |-> FALSE],
      [rows |-> {},         embeds |-> {"footer_field_over", "fields_2nd_3rd", "basic"}, setters |-> FALSE] }

\* The message is one that the closures of family f build.
InFamilyOf(f, msg) ==
    /\ (is_some(msg.content) \/ is_some(msg.username) \/ is_some(msg.avatar_url))
          => f.setters
    /\ \A k \in DOMAIN msg.action_rows :
          \E t \in f.rows : msg.action_rows[k] = Row(t, k - 1)
    /\ \A k \in DOMAIN msg.embeds :
          \E t \in f.embeds :
              /\ ~EmbedOf(t).panicked
              /\ msg.embeds[k] = EmbedOf(t).embed

\* The closures given to Message::embed of lib.rs, by name.
lib_EmbedTags == {"titled", "typed", "fields_26"}
lib_EmbedOf(tag) ==
    CASE tag = "titled" ->
            lib_EmbedBuilder_build(
                lib_EmbedBuilder_field(
                    [lib_EmbedBuilder_new EXCEPT
                        !.title = Some(Repeat("t", 4)),
                        !.description = Some(Repeat("d", 4))],
                    Repeat("n", 4), Repeat("v", 4), TRUE))
      [] tag = "typed" ->
            lib_EmbedBuilder_build(
                [lib_EmbedBuilder_new EXCEPT
                    !.title = Some(Repeat("t", 4)),
                    !.type_ = Some(Repeat("r", 4))])
      [] tag = "fields_26" ->
            lib_EmbedBuilder_build(lib_WithFields(lib_EmbedBuilder_new, 26))


----------------------------------------------------------------------------
(* The caller and the send operations.                                      *)

\* std::io::Error::new(std::io::ErrorKind::InvalidInput, message)
IoError(kind, msg) == [class |-> "std::io::Error", kind |-> kind, message |-> msg]
\* What an operation returns: Ok(value) or Err(error).
ReturnOk(value) == [ok |-> TRUE, value |-> value]
ReturnErr(error) == [ok |-> FALSE, error |-> error]

\* An error of the HTTP client (connection, TLS, protocol), or of the
\* request builder.
TransportError(class) == [class |-> class]

\* The urls a client is constructed with: a webhook url, and two strings that
\* are not a URI.
WebhookUrl == "https://discord.com/api/webhooks/1/token"
ClientUrls == {WebhookUrl, "", "not a uri"}

\* Whether the request builder takes the url: Request::builder().uri(&self.url)
\* of send_message, self.client.post(&self.url) of Webhook::send.
is_uri(url) == url \notin {"", "not a uri"}

\* WebhookClient::new(url) and Webhook::from_url(url): the client keeps the
\* url as it is given; nothing parses it before a send.
WebhookClient_new(url) == [api |-> "WebhookClient", url |-> url]
Webhook_from_url(url) == [api |-> "Webhook", url |-> url]

\* The response statuses the endpoint answers with.
NO_CONTENT == 204
Statuses == {NO_CONTENT, 200, 400}

\* The text of the response body of a status other than 204.
ResponseText(status) == [response_body_of |-> status]

\* The bodies a response comes with: UTF-8 text, bytes that are not UTF-8,
\* and a body whose read fails.
Bodies == {"text", "not_utf8", "unreadable"}

\* "Error reading Discord API error message:" + &err.to_string()
Utf8ErrorText(status) ==
    [text |-> "Error reading Discord API error message:", utf8_error_of |-> status]

\* Most calls of WebhookClient::send that run concurrently on one client.
MaxSends == 2

\* The frame of a call of WebhookClient::send that has not started.
NoFrame ==
    [pc |-> "called", message |-> Message_new, message_context |-> None,
     checked |-> None, response |-> None, result |-> None]

\* No caller has done anything yet: the message is the new Message of the
\* client's API.
Idle ==
    /\ pc = "building"
    /\ entry = "none"
    /\ message = (IF client.api = "Webhook" THEN lib_Message_new ELSE Message_new)
    /\ message_context = None
    /\ checked = None
    /\ validations = 0
    /\ requests = <<>>
    /\ result = None
    /\ response = None
    /\ sends = [s \in 1..MaxSends |-> NoFrame]

\* A caller with a client of either API, on a url of its choice.
Init ==
    /\ client \in { WebhookClient_new(url) : url \in ClientUrls }
                  \cup { Webhook_from_url(url) : url \in ClientUrls }
    /\ Idle
    /\ probe = None

\* Message::embed: the closure fills a new Embed, which is pushed.  A panic
\* of Embed::field inside the closure unwinds the caller.
MessageEmbed ==
    /\ pc = "building"
    /\ client.api = "WebhookClient"
    /\ UNCHANGED <<client, sends, probe, response>>
    /\ Len(message.embeds) < MaxEmbeds
    /\ \E f \in Families : \E t \in f.embeds :
          /\ InFamilyOf(f, message)
          /\ LET st == EmbedOf(t)
             IN  IF st.panicked
                 THEN /\ pc' = "panicked"
                      /\ UNCHANGED message
                 ELSE /\ message' = [message EXCEPT !.embeds = Append(@, st.embed)]
                      /\ UNCHANGED pc
    /\ UNCHANGED <<entry, message_context, checked, validations, requests, result>>

\* Message::content, Message::username, Message::avatar_url: the setters of
\* the string options.  The content is longer than any length limit of an
\* embed or a button.
MessageContent ==
    /\ pc = "building"
    /\ client.api = "WebhookClient"
    /\ UNCHANGED <<client, sends, probe, response>>
    /\ is_none(message.content)
    /\ \E f \in Families : f.setters /\ InFamilyOf(f, message)
    /\ message' = [message EXCEPT !.content = Some(Repeat("c", 6001))]
    /\ UNCHANGED <<pc, entry, message_context, checked, validations, requests, result>>

MessageUsername ==
    /\ pc = "building"
    /\ client.api = "WebhookClient"
    /\ UNCHANGED <<client, sends, probe, response>>
    /\ is_none(message.username)
    /\ \E f \in Families : f.setters /\ InFamilyOf(f, message)
    /\ message' = [message EXCEPT !.username = Some(Repeat("e_acute", 81))]
    /\ UNCHANGED <<pc, entry, message_context, checked, validations, requests, result>>

MessageAvatarUrl ==
    /\ pc = "building"
    /\ client.api = "WebhookClient"
    /\ UNCHANGED <<client, sends, probe, response>>
    /\ is_none(message.avatar_url)
    /\ \E f \in Families : f.setters /\ InFamilyOf(f, message)
    /\ message' = [message EXCEPT !.avatar_url = Some(Url)]
    /\ UNCHANGED <<pc, entry, message_context, checked, validations, requests, result>>

\* Message::action_row: the closure fills a new ActionRow, which is pushed.
MessageActionRow ==
    /\ pc = "building"
    /\ client.api = "WebhookClient"
    /\ UNCHANGED <<client, sends, probe, response>>
    /\ Len(message.action_rows) < action_row_count_interval.max_allowed + ExtraRows
    /\ \E f \in Families : \E t \in f.rows :
          /\ InFamilyOf(f, message)
          /\ message' = [message EXCEPT
                            !.action_rows = Append(@, Row(t, Len(message.action_rows)))]
    /\ UNCHANGED <<pc, entry, message_context, checked, validations, requests, result>>

\* send_message from its call to its first suspension point: the message
\* is serialized (serde_json::to_string cannot fail on a Message: its keys are
\* strings and nothing in it fails to serialize), the request is built, which
\* fails with the builder's error when the url is not a URI, and is handed to
\* the HTTP client.
send_message_request(msg) ==
    IF is_uri(client.url)
    THEN /\ requests' = Append(requests, Message_serialize(msg))
         /\ pc' = "in_flight"
         /\ UNCHANGED result
    ELSE /\ result' = Some(ReturnErr(TransportError("http::Error")))
         /\ pc' = "done"
         /\ UNCHANGED requests

\* WebhookClient::send that strips the action rows from the message once it
\* has validated it, and transmits what is left.
WebhookClientSend_stripping_rows ==
    /\ pc = "building"
    /\ client.api = "WebhookClient"
    /\ UNCHANGED <<client, sends, probe, response>>
    /\ entry' = "WebhookClient::send"
    /\ LET r == Message_check_compatibility(message, MessageContext_new)
       IN  /\ message_context' = Some(r.ctx)
           /\ checked' = Some(r.res)
           /\ validations' = validations + 1
           /\ message' = [message EXCEPT !.action_rows = <<>>]
           /\ IF is_err(r.res)
              THEN /\ result' = Some(ReturnErr(IoError("InvalidInput", unwrap_err(r.res))))
                   /\ pc' = "done"
                   /\ UNCHANGED requests
              ELSE send_message_request(message')

\* WebhookClient::send with the error arm of the match dropped: the message
\* is sent whatever the validation returned.
WebhookClientSend_ignoring_error ==
    /\ pc = "building"
    /\ client.api = "WebhookClient"
    /\ UNCHANGED <<client, sends, probe, response>>
    /\ entry' = "WebhookClient::send"
    /\ LET r == Message_check_compatibility(message, MessageContext_new)
       IN  /\ message_context' = Some(r.ctx)
           /\ checked' = Some(r.res)
           /\ validations' = validations + 1
           /\ send_message_request(message)
    /\ UNCHANGED message

\* WebhookClient::send, from the return of the caller's closure to the first
\* suspension point: the validation of the message with a new context and,
\* when it passes, send_message up to the request it hands to the HTTP client.
WebhookClientSend ==
    /\ pc = "building"
    /\ client.api = "WebhookClient"
    /\ UNCHANGED <<client, sends, probe, response>>
    /\ entry' = "WebhookClient::send"
    /\ LET r == Message_check_compatibility(message, MessageContext_new)
       IN  /\ message_context' = Some(r.ctx)
           /\ checked' = Some(r.res)
           /\ validations' = validations + 1
           /\ IF is_err(r.res)
              THEN /\ result' = Some(ReturnErr(IoError("InvalidInput", unwrap_err(r.res))))
                   /\ pc' = "done"
                   /\ UNCHANGED requests
              ELSE send_message_request(message)
    /\ UNCHANGED message

\* WebhookClient::send_message called by the caller on a message of its own,
\* up to its first suspension point.
WebhookClientSendMessage ==
    /\ pc = "building"
    /\ client.api = "WebhookClient"
    /\ UNCHANGED <<client, sends, probe, response>>
    /\ entry' = "WebhookClient::send_message"
    /\ send_message_request(message)
    /\ UNCHANGED <<message, message_context, checked, validations>>

\* Message::content, Message::username, Message::avatar_url and Message::tts
\* of lib.rs.
LibMessageContent ==
    /\ pc = "building"
    /\ client.api = "Webhook"
    /\ UNCHANGED <<client, sends, probe, response>>
    /\ is_none(message.content)
    /\ message' = [message EXCEPT !.content = Some(Repeat("c", 6001))]
    /\ UNCHANGED <<pc, entry, message_context, checked, validations, requests, result>>

LibMessageUsername ==
    /\ pc = "building"
    /\ client.api = "Webhook"
    /\ UNCHANGED <<client, sends, probe, response>>
    /\ is_none(message.username)
    /\ message' = [message EXCEPT !.username = Some(Repeat("e_acute", 81))]
    /\ UNCHANGED <<pc, entry, message_context, checked, validations, requests, result>>

LibMessageAvatarUrl ==
    /\ pc = "building"
    /\ client.api = "Webhook"
    /\ UNCHANGED <<client, sends, probe, response>>
    /\ is_none(message.avatar_url)
    /\ message' = [message EXCEPT !.avatar_url = Some(Url)]
    /\ UNCHANGED <<pc, entry, message_context, checked, validations, requests, result>>

LibMessageTts ==
    /\ pc = "building"
    /\ client.api = "Webhook"
    /\ UNCHANGED <<client, sends, probe, response>>
    /\ is_none(message.tts)
    /\ message' = [message EXCEPT !.tts = Some(TRUE)]
    /\ UNCHANGED <<pc, entry, message_context, checked, validations, requests, result>>

\* Message::embed of lib.rs: the closure fills a new EmbedBuilder, and what
\* it builds is pushed.
LibMessageEmbed ==
    /\ pc = "building"
    /\ client.api = "Webhook"
    /\ UNCHANGED <<client, sends, probe, response>>
    /\ Len(message.embeds) < MaxEmbeds
    /\ \E t \in lib_EmbedTags :
          message' = [message EXCEPT !.embeds = Append(@, lib_EmbedOf(t))]
    /\ UNCHANGED <<pc, entry, message_context, checked, validations, requests, result>>

\* Webhook::send of lib.rs, from the return of the caller's closure to its
\* suspension point: the message is posted as built, with no validation; a
\* url that is not one makes the request fail before anything is sent.
WebhookSend ==
    /\ pc = "building"
    /\ client.api = "Webhook"
    /\ UNCHANGED <<client, sends, probe, response>>
    /\ entry' = "Webhook::send"
    /\ IF is_uri(client.url)
       THEN /\ requests' = Append(requests, lib_Message_serialize(message))
            /\ pc' = "in_flight"
            /\ UNCHANGED result
       ELSE /\ result' = Some(ReturnErr(TransportError("reqwest::Error")))
            /\ pc' = "done"
            /\ UNCHANGED requests
    /\ UNCHANGED <<message, message_context, checked, validations>>

\* A status test that takes every 2xx status for success.
is_no_content_any_2xx(status) == status >= 200 /\ status < 300

\* response.status() == StatusCode::NO_CONTENT
is_no_content(status) == status = NO_CONTENT

\* The error send_message returns once it has read the body of a response
\* whose status is not 204: a failure of the read is returned as the HTTP
\* client's error; otherwise an InvalidInput error carrying the body text or,
\* when the body is not UTF-8, a message saying so.
send_message_error(status, body) ==
    IF body = "unreadable" THEN TransportError("hyper::Error")
    ELSE IF body = "not_utf8"
         THEN IoError("InvalidInput", Utf8ErrorText(status))
         ELSE IoError("InvalidInput", ResponseText(status))

\* The head of the response arrives: the await of the request resumes.
\* Webhook::send returns Ok(()) whatever the status; send_message returns
\* Ok(true) on 204 No Content and otherwise suspends on reading the body.
Respond ==
    /\ pc = "in_flight"
    /\ UNCHANGED <<client, sends, probe>>
    /\ \E status \in Statuses :
          /\ response' = Some([status |-> status, body |-> None])
          /\ IF entry = "Webhook::send"
             THEN /\ result' = Some(ReturnOk("()"))
                  /\ pc' = "done"
             ELSE IF is_no_content(status)
             THEN /\ result' = Some(ReturnOk("true"))
                  /\ pc' = "done"
             ELSE /\ pc' = "reading_body"
                  /\ UNCHANGED result
    /\ UNCHANGED <<entry, message, message_context, checked, validations, requests>>

\* hyper::body::to_bytes(response.into_body()).await completes, and
\* send_message returns the error.
ReadBody ==
    /\ pc = "reading_body"
    /\ UNCHANGED <<client, sends, probe>>
    /\ \E body \in Bodies :
          /\ response' = Some([unwrap(response) EXCEPT !.body = Some(body)])
          /\ result' = Some(ReturnErr(send_message_error(unwrap(response).status, body)))
    /\ pc' = "done"
    /\ UNCHANGED <<entry, message, message_context, checked, validations, requests>>

\* The request fails in the HTTP client: `.await?` returns its error.
RequestFails ==
    /\ pc = "in_flight"
    /\ UNCHANGED <<client, sends, probe, response>>
    /\ result' = Some(ReturnErr(TransportError(
                    IF entry = "Webhook::send" THEN "reqwest::Error"
                    ELSE "hyper::Error")))
    /\ pc' = "done"
    /\ UNCHANGED <<entry, message, message_context, checked, validations, requests>>

Next ==
    \/ MessageContent
    \/ MessageUsername
    \/ MessageAvatarUrl
    \/ MessageEmbed
    \/ MessageActionRow
    \/ WebhookClientSend
    \/ WebhookClientSendMessage
    \/ LibMessageContent
    \/ LibMessageUsername
    \/ LibMessageAvatarUrl
    \/ LibMessageTts
    \/ LibMessageEmbed
    \/ WebhookSend
    \/ Respond
    \/ ReadBody
    \/ RequestFails

Spec == Init /\ [][Next]_vars

----------------------------------------------------------------------------
(* Interval on its own: one call of contains and of interval_check on an    *)
(* interval and a value of the caller's choice.                             *)

\* The bounds and values of the intervals probed are 0..MaxBound.
MaxBound == 5

callerVars == <<client, pc, entry, message, message_context, checked, validations,
                requests, result, response>>

\* Interval::from_min_max(a, b) for every a and b, min above max included,
\* and a value to test.
InitInterval ==
    /\ client = WebhookClient_new(WebhookUrl)
    /\ Idle
    /\ probe \in { Some([interval |-> from_min_max(a, b), value |-> v,
                         answer |-> None, check |-> None]) :
                        a \in 0..MaxBound, b \in 0..MaxBound, v \in 0..MaxBound }

\* interval.contains(&value)
IntervalContains ==
    /\ is_some(probe)
    /\ is_none(unwrap(probe).answer)
    /\ probe' = Some([unwrap(probe) EXCEPT
                        !.answer = Some(contains(unwrap(probe).interval,
                                                 unwrap(probe).value))])
    /\ UNCHANGED <<callerVars, sends>>

\* interval_check(&interval, &value, "Value")
IntervalCheck ==
    /\ is_some(probe)
    /\ is_none(unwrap(probe).check)
    /\ probe' = Some([unwrap(probe) EXCEPT
                        !.check = Some(interval_check(unwrap(probe).interval,
                                                      unwrap(probe).value, "Value"))])
    /\ UNCHANGED <<callerVars, sends>>

NextInterval ==
    \/ IntervalContains
    \/ IntervalCheck

SpecInterval == InitInterval /\ [][NextInterval]_vars

----------------------------------------------------------------------------
(* Several calls of WebhookClient::send on one client, interleaved.  Each   *)
(* call is a future with its own locals; the steps of different calls are   *)
(* taken in any order.                                                      *)

\* The messages the callers' closures build: one regular button with the
\* custom id "a"; one embed with a description of 4096; the same custom id
\* twice in one row.
SendMessages ==
    { [Message_new EXCEPT !.action_rows = <<Row("first_id", 0)>>],
      [Message_new EXCEPT !.embeds = <<EmbedOf("desc_max").embed>>],
      [Message_new EXCEPT !.action_rows = <<Row("dup_in_row", 0)>>] }

\* let mut message = Message::new(); function(&mut message);
SendBuild(s) ==
    /\ sends[s].pc = "called"
    /\ \E m \in SendMessages :
          sends' = [sends EXCEPT ![s].message = m, ![s].pc = "built"]
    /\ UNCHANGED <<callerVars, probe>>

\* A context taken over from another call that holds one, as if the client
\* kept the context.
SendNewContext_shared(s) ==
    /\ sends[s].pc = "built"
    /\ LET held == { t \in DOMAIN sends : t # s /\ is_some(sends[t].message_context) }
       IN  \/ /\ held = {}
              /\ sends' = [sends EXCEPT ![s].message_context = Some(MessageContext_new),
                                        ![s].pc = "context"]
           \/ \E t \in held :
                 sends' = [sends EXCEPT ![s].message_context = sends[t].message_context,
                                        ![s].pc = "context"]
    /\ UNCHANGED <<callerVars, probe>>

\* let mut message_context = MessageContext::new();
SendNewContext(s) ==
    /\ sends[s].pc = "built"
    /\ sends' = [sends EXCEPT ![s].message_context = Some(MessageContext_new),
                              ![s].pc = "context"]
    /\ UNCHANGED <<callerVars, probe>>

\* message.check_compatibility(&mut message_context)
SendCheck(s) ==
    /\ sends[s].pc = "context"
    /\ LET r == Message_check_compatibility(sends[s].message,
                                            unwrap(sends[s].message_context))
       IN  sends' = [sends EXCEPT ![s].message_context = Some(r.ctx),
                                  ![s].checked = Some(r.res),
                                  ![s].pc = "checked"]
    /\ UNCHANGED <<callerVars, probe>>

\* The match on the verdict: the error arm returns; the Ok arm goes on to
\* send_message, which builds the request (and returns the builder's error
\* when the url is not a URI), hands it to the HTTP client and awaits the
\* response.
SendMatch(s) ==
    /\ sends[s].pc = "checked"
    /\ LET res == unwrap(sends[s].checked)
       IN  IF is_err(res)
           THEN /\ sends' = [sends EXCEPT
                              ![s].result = Some(ReturnErr(IoError("InvalidInput",
                                                                   unwrap_err(res)))),
                              ![s].pc = "done"]
                /\ UNCHANGED requests
           ELSE IF is_uri(client.url)
           THEN /\ requests' = Append(requests, Message_serialize(sends[s].message))
                /\ sends' = [sends EXCEPT ![s].pc = "in_flight"]
           ELSE /\ sends' = [sends EXCEPT
                              ![s].result = Some(ReturnErr(TransportError("http::Error"))),
                              ![s].pc = "done"]
                /\ UNCHANGED requests
    /\ UNCHANGED <<client, pc, entry, message, message_context, checked, validations,
                   result, response, probe>>

\* The head of the response of the call arrives: Ok(true) on 204, otherwise
\* the call suspends on reading the body.
SendRespond(s) ==
    /\ sends[s].pc = "in_flight"
    /\ \E status \in Statuses :
          sends' = IF is_no_content(status)
                   THEN [sends EXCEPT
                            ![s].response = Some([status |-> status, body |-> None]),
                            ![s].result = Some(ReturnOk("true")),
                            ![s].pc = "done"]
                   ELSE [sends EXCEPT
                            ![s].response = Some([status |-> status, body |-> None]),
                            ![s].pc = "reading_body"]
    /\ UNCHANGED <<callerVars, probe>>

\* The body of the response of the call has been read.
SendReadBody(s) ==
    /\ sends[s].pc = "reading_body"
    /\ \E body \in Bodies :
          sends' = [sends EXCEPT
                      ![s].response = Some([unwrap(sends[s].response) EXCEPT
                                               !.body = Some(body)]),
                      ![s].result = Some(ReturnErr(send_message_error(
                                        unwrap(sends[s].response).status, body))),
                      ![s].pc = "done"]
    /\ UNCHANGED <<callerVars, probe>>

\* The request of the call fails in the HTTP client: `.await?` returns its
\* error, and no response is recorded.
SendRequestFails(s) ==
    /\ sends[s].pc = "in_flight"
    /\ sends' = [sends EXCEPT
                    ![s].result = Some(ReturnErr(TransportError("hyper::Error"))),
                    ![s].pc = "done"]
    /\ UNCHANGED <<callerVars, probe>>

NextSends ==
    \E s \in 1..MaxSends :
        \/ SendBuild(s)
        \/ SendNewContext(s)
        \/ SendCheck(s)
        \/ SendMatch(s)
        \/ SendRespond(s)
        \/ SendReadBody(s)
        \/ SendRequestFails(s)

\* Callers sharing one WebhookClient, on a url of their choice.
InitSends ==
    /\ client \in { WebhookClient_new(url) : url \in ClientUrls }
    /\ Idle
    /\ probe = None

SpecSends == InitSends /\ [][NextSends]_vars

----------------------------------------------------------------------------
(* The documented limits, stated on the message itself: by position in the  *)
(* tree, without a context.                                                 *)

Rows == message.action_rows
Embeds == message.embeds

\* WebhookClient::send has validated the message, and no response has
\* arrived yet: the states the validation pass leaves.  The pass reads the
\* message and its context, never the client, so the states of the client
\* with the webhook url stand for those of every client.
Validated ==
    /\ entry = "WebhookClient::send"
    /\ is_some(checked)
    /\ is_none(response)
    /\ client.url = WebhookUrl
Verdict == unwrap(checked)
Context == unwrap(message_context)

\* The positions <<row, component>> of the buttons, in document order.
Pos == UNION { { <<i, j>> : j \in DOMAIN Rows[i] } : i \in DOMAIN Rows }
Before(p, q) == p[1] < q[1] \/ (p[1] = q[1] /\ p[2] < q[2])
At(p) == Rows[p[1]][p[2]]

\* A button of a non-Link style that carries a custom id.
HasId(b) == is_some(b.style) /\ unwrap(b.style) # "Link" /\ is_some(b.custom_id)
IdOf(b) == unwrap(b.custom_id)

\* The custom ids of the buttons before position p, over all rows.
PriorIds(p) == { IdOf(At(q)) : q \in { r \in Pos : Before(r, p) /\ HasId(At(r)) } }

\* The buttons with a custom id in the row of p, up to and including p.
CountInRow(p) ==
    Cardinality({ j \in 1..p[2] : HasId(Rows[p[1]][j]) })

\* The first limit the button at p breaks, given that nothing before it
\* breaks one ("none": it breaks none).
ButtonFault(p) ==
    LET b == At(p)
    IN  IF is_some(b.label) /\ len(unwrap(b.label)) > 80 THEN "label"
        ELSE IF is_none(b.style) THEN "style"
        ELSE IF unwrap(b.style) = "Link"
             THEN IF is_none(b.url) THEN "url" ELSE "none"
        ELSE IF is_none(b.custom_id) THEN "custom id"
        ELSE IF len(IdOf(b)) < 1 \/ len(IdOf(b)) > 100 THEN "id length"
        ELSE IF IdOf(b) \in PriorIds(p) THEN "twice"
        ELSE IF CountInRow(p) > 5 THEN "count"
        ELSE "none"

\* The text of the embeds 1..k that counts toward the message-wide total.
RECURSIVE RunningTextLen(_)
RunningTextLen(k) ==
    IF k = 0 THEN 0 ELSE RunningTextLen(k - 1) + EmbedTextLen(Embeds[k])

\* The embed keeps every limit of its own.
EmbedOwnValid(e) ==
    /\ Len(e.fields) <= 25
    /\ is_some(e.title) => len(unwrap(e.title)) <= 256
    /\ is_some(e.description) => len(unwrap(e.description)) <= 4096
    /\ is_some(e.author) => len(unwrap(e.author).name) <= 256
    /\ is_some(e.footer) => len(unwrap(e.footer).text) <= 2048
    /\ \A k \in DOMAIN e.fields :
          len(e.fields[k].name) <= 256 /\ len(e.fields[k].value) <= 1024

\* The number of characters of a string: the unit in which the limits are
\* documented.  The program never counts characters; what it measures is len.
CharCount(s) == s.n

\* The characters of an embed that count toward the total.
EmbedCharCount(e) ==
      (IF is_some(e.title) THEN CharCount(unwrap(e.title)) ELSE 0)
    + (IF is_some(e.description) THEN CharCount(unwrap(e.description)) ELSE 0)
    + (IF is_some(e.footer) THEN CharCount(unwrap(e.footer).text) ELSE 0)
    + (IF is_some(e.author) THEN CharCount(unwrap(e.author).name) ELSE 0)
    + (IF e.fields = <<>> THEN 0
       ELSE FieldsTextLen([k \in DOMAIN e.fields |->
                  [name |-> Repeat("a", CharCount(e.fields[k].name)),
                   value |-> Repeat("a", CharCount(e.fields[k].value))]],
                1, Len(e.fields)))

RECURSIVE RunningCharCount(_)
RunningCharCount(k) ==
    IF k = 0 THEN 0 ELSE RunningCharCount(k - 1) + EmbedCharCount(Embeds[k])

EmbedsValid ==
    /\ \A k \in DOMAIN Embeds : EmbedOwnValid(Embeds[k])
    /\ RunningTextLen(Len(Embeds)) <= 6000

\* Nothing before position p breaks a limit: the row count, the embeds, the
\* rows up to the row of p (none empty) and the buttons before p.
CleanBefore(p) ==
    /\ Len(Rows) <= 5
    /\ EmbedsValid
    /\ \A i \in 1..p[1] : Rows[i] # <<>>
    /\ \A q \in Pos : Before(q, p) => ButtonFault(q) = "none"

\* Nothing before row i breaks a limit.
CleanBeforeRow(i) ==
    /\ Len(Rows) <= 5
    /\ EmbedsValid
    /\ \A k \in 1..(i - 1) : Rows[k] # <<>>
    /\ \A q \in Pos : q[1] < i => ButtonFault(q) = "none"

\* The message breaks no limit of its action rows.
RowsValid ==
    /\ Len(Rows) <= 5
    /\ \A i \in DOMAIN Rows : Rows[i] # <<>>
    /\ \A q \in Pos : ButtonFault(q) = "none"

----------------------------------------------------------------------------
(* The claims.                                                              *)

\* C1: in WebhookClient::send, whenever check_compatibility returns an error,
\* send has returned an InvalidInput error carrying that message and no HTTP
\* request has been issued for the send.
C1_ValidationErrorAbortsSend ==
    (entry = "WebhookClient::send" /\ is_some(checked) /\ is_err(Verdict)) =>
        /\ pc = "done"
        /\ requests = <<>>
        /\ result = Some(ReturnErr(IoError("InvalidInput", unwrap_err(Verdict))))

\* A send whose validation failed has returned.
C1_Witness ==
    /\ Validated
    /\ is_err(Verdict)
    /\ pc = "done"
    /\ Len(Rows) = 2

\* C2 (as claimed): every message handed to the HTTP client has passed exactly
\* one successful validation pass, whatever public operation sent it.
C2_TransmittedOnlyAfterValidation ==
    requests # <<>> => (validations = 1 /\ checked = Some(Ok))

\* C3: custom-id uniqueness is message-wide.  A message that passes has pairwise
\* distinct custom ids over all rows; a button that repeats an earlier id, in
\* its row or in another, with nothing before it breaking a limit, makes
\* validation fail with the duplicate error naming the id; an id used once
\* passes.
C3_CustomIdsUniqueMessageWide ==
    Validated =>
        /\ is_ok(Verdict) =>
              \A p, q \in Pos :
                  (p # q /\ HasId(At(p)) /\ HasId(At(q))) => IdOf(At(p)) # IdOf(At(q))
        /\ \A p \in Pos :
              (CleanBefore(p) /\ ButtonFault(p) = "twice") =>
                  Verdict = Err(DuplicateError(IdOf(At(p))))
        /\ (Embeds = <<>> /\ Rows = <<RegularRow(0, 1)>>) => is_ok(Verdict)

\* Validation met an id used in an earlier row, and reported it.
C3_Witness ==
    /\ Validated
    /\ \E p \in Pos :
          /\ CleanBefore(p)
          /\ ButtonFault(p) = "twice"
          /\ \E q \in Pos : q[1] < p[1] /\ HasId(At(q)) /\ IdOf(At(q)) = IdOf(At(p))
    /\ is_err(Verdict)
    /\ unwrap_err(Verdict).kind = "twice"

\* C4: more than 5 action rows fail with the action-row count error, before any
\* embed or row is examined (the context is still the new one); exactly 5 rows
\* that break no limit pass.
C4_ActionRowCountCheckedFirst ==
    Validated =>
        /\ Len(Rows) > 5 =>
              /\ Verdict = Err(IntervalError("Action row count", Len(Rows),
                                             from_min_max(0, 5)))
              /\ Context = MessageContext_new
        /\ (Len(Rows) = 5 /\ RowsValid /\ EmbedsValid) => is_ok(Verdict)

\* Six rows and an embed that breaks a limit of its own were validated.
C4_Witness ==
    /\ Validated
    /\ Len(Rows) = 6
    /\ \E k \in DOMAIN Embeds : ~EmbedOwnValid(Embeds[k])
    /\ is_err(Verdict)

\* C5 (as claimed): every message that passes validation has between 1 and 5
\* buttons in each of its action rows, Link and Regular buttons both counted.
C5_PassedRowsHoldOneToFiveButtons ==
    (Validated /\ is_ok(Verdict)) =>
        \A i \in DOMAIN Rows : 1 <= Len(Rows[i]) /\ Len(Rows[i]) <= 5

\* The verdict is the interval error of the given field.
IsIntervalError(field_name) ==
    /\ is_err(Verdict)
    /\ unwrap_err(Verdict).kind = "interval"
    /\ unwrap_err(Verdict).field_name = field_name

\* C6: the button-count limit is per action row.  The sixth button with a
\* custom id in one row, nothing before it breaking a limit, fails with the
\* button-count error; the error is only ever reported for a row that holds
\* more than five such buttons itself; rows that each keep the limit pass
\* however many buttons the rows before them hold (5 rows of 5); the counter
\* left in the context never exceeds the size of the last row.
C6_ButtonCountIsPerRow ==
    Validated =>
        /\ \A p \in Pos :
              (CleanBefore(p) /\ ButtonFault(p) = "count") =>
                  Verdict = Err(IntervalError("Button count", 6, from_min_max(0, 5)))
        /\ IsIntervalError("Button count") =>
              \E i \in DOMAIN Rows :
                  Cardinality({ j \in DOMAIN Rows[i] : HasId(Rows[i][j]) }) > 5
        /\ (RowsValid /\ EmbedsValid) => is_ok(Verdict)
        /\ (Len(Rows) \in 1..5 /\ EmbedsValid) =>
              Context.button_count_in_action_row <= Len(Rows[Len(Rows)])

\* Five rows of five regular buttons each, 25 distinct ids, passed.
C6_Witness ==
    /\ Validated
    /\ Embeds = <<>>
    /\ Rows = [i \in 1..5 |-> RegularRow(i - 1, 5)]
    /\ Cardinality({ IdOf(At(p)) : p \in Pos }) = 25
    /\ is_ok(Verdict)

\* C7: an empty action row, with nothing before it breaking a limit (at most 5
\* rows, valid embeds, valid rows before it), fails with the empty-row error.
C7_EmptyActionRowRejected ==
    Validated =>
        \A i \in DOMAIN Rows :
            (CleanBeforeRow(i) /\ Rows[i] = <<>>) => Verdict = Err(EmptyRowError)

\* An empty row after a valid row of five buttons was rejected.
C7_Witness ==
    /\ Validated
    /\ Len(Rows) = 2
    /\ Len(Rows[1]) = 5
    /\ Rows[2] = <<>>
    /\ CleanBeforeRow(2)
    /\ Verdict = Err(EmptyRowError)

\* C8: required fields by variant, for a button whose label is within the
\* limit and before which nothing breaks a limit: no style fails with the
\* style error (custom id set or not), style without custom id fails with the
\* custom-id error, a link button without url fails with the url error; a
\* link button with only a label and a url passes.
C8_RequiredButtonFields ==
    Validated =>
        /\ \A p \in Pos :
              CleanBefore(p) =>
                  /\ ButtonFault(p) = "style" => Verdict = Err(StyleError)
                  /\ ButtonFault(p) = "custom id" => Verdict = Err(CustomIdError)
                  /\ ButtonFault(p) = "url" => Verdict = Err(UrlError)
        /\ (Embeds = <<>> /\ Rows = <<OneLink(Some(Label(4)), Some(Url))>>) =>
              is_ok(Verdict)

\* A regular button that carries a custom id and no style was rejected for
\* its style, after a valid row.
C8_Witness ==
    /\ Validated
    /\ \E p \in Pos :
          /\ p[1] = 2
          /\ CleanBefore(p)
          /\ is_none(At(p).style)
          /\ is_some(At(p).custom_id)
    /\ Verdict = Err(StyleError)

\* C9: for a regular button with a style (label within the limit, nothing
\* before it breaking a limit) the custom id is accepted exactly when its
\* length is in [1, 100]: outside, validation fails with the custom-id length
\* error; the length error is only ever reported for an id of a length
\* outside [1, 100]; a lone button with an id of length 1..100 passes.
C9_CustomIdLengthOneToHundred ==
    Validated =>
        /\ \A p \in Pos :
              (CleanBefore(p) /\ ButtonFault(p) = "id length") =>
                  Verdict = Err(IntervalError("Custom ID length", len(IdOf(At(p))),
                                              from_min_max(1, 100)))
        /\ IsIntervalError("Custom ID length") =>
              /\ unwrap_err(Verdict).value \notin 1..100
              /\ \E p \in Pos : /\ HasId(At(p))
                                /\ len(IdOf(At(p))) = unwrap_err(Verdict).value
        /\ ( /\ Embeds = <<>>
             /\ Pos = {<<1, 1>>}
             /\ HasId(At(<<1, 1>>))
             /\ is_none(At(<<1, 1>>).label)
             /\ len(IdOf(At(<<1, 1>>))) \in 1..100 ) => is_ok(Verdict)

\* A lone regular button with a custom id of length 100 passed.
C9_Witness ==
    /\ Validated
    /\ Pos = {<<1, 1>>}
    /\ HasId(At(<<1, 1>>))
    /\ len(IdOf(At(<<1, 1>>))) = 100
    /\ is_ok(Verdict)

\* C10: the 6000 limit on embed text is cumulative over the message.  At the
\* first embed where the running sum of title, description, footer text,
\* author name and field names and values exceeds 6000, with at most 5 rows
\* and every embed before it keeping its own limits, validation fails with
\* the 'Character count across all embeds' error carrying the running sum;
\* every message that passes has the sum, in bytes and so in characters, at
\* most 6000.  (Lengths are String::len, as the checker measures them.)
C10_EmbedTotalIsCumulative ==
    Validated =>
        /\ Len(Rows) <= 5 =>
              \A k \in DOMAIN Embeds :
                  ( /\ RunningTextLen(k) > 6000
                    /\ RunningTextLen(k - 1) <= 6000
                    /\ \A j \in 1..(k - 1) : EmbedOwnValid(Embeds[j]) ) =>
                      Verdict = Err(IntervalError("Character count across all embeds",
                                                  RunningTextLen(k),
                                                  from_min_max(0, 6000)))
        /\ is_ok(Verdict) =>
              /\ RunningTextLen(Len(Embeds)) <= 6000
              /\ RunningCharCount(Len(Embeds)) <= 6000

\* Two embeds, each within all of its own limits, exceeded the total.
C10_Witness ==
    /\ Validated
    /\ Len(Embeds) = 2
    /\ \A k \in DOMAIN Embeds :
          /\ EmbedOwnValid(Embeds[k])
          /\ Embeds[k].description = Some(Repeat("a", 4096))
    /\ IsIntervalError("Character count across all embeds")
    /\ unwrap_err(Verdict).value = 8192


\* C11 (as claimed): a 26th field added to an embed is reported by the
\* validation pass as an error value, so the caller's builder closure always
\* returns and never unwinds the caller.
C11_FieldCountReportedAsError == pc # "panicked"


\* The attributes of an embed that are longer than their maximum, each as the
\* length error that names it.
Over(e) ==
    LET one(present, n, max, field_name) ==
            IF present /\ n > max
            THEN {IntervalError(field_name, n, from_min_max(0, max))}
            ELSE {}
    IN  one(is_some(e.title),
            IF is_some(e.title) THEN len(unwrap(e.title)) ELSE 0,
            256, "Embed title length")
        \cup one(is_some(e.description),
            IF is_some(e.description) THEN len(unwrap(e.description)) ELSE 0,
            4096, "Embed description length")
        \cup one(is_some(e.footer),
            IF is_some(e.footer) THEN len(unwrap(e.footer).text) ELSE 0,
            2048, "Embed footer text length")
        \cup one(is_some(e.author),
            IF is_some(e.author) THEN len(unwrap(e.author).name) ELSE 0,
            256, "Embed author name length")
        \cup UNION { one(TRUE, len(e.fields[k].name), 256, "Embed field name length")
                     \cup one(TRUE, len(e.fields[k].value), 1024,
                              "Embed field value length") : k \in DOMAIN e.fields }

\* C12: per-attribute embed length limits.  For a message with one embed (at
\* most 5 action rows, cumulative text at most 6000, at most 25 fields) in
\* which exactly one of title (max 256), description (4096), footer text
\* (2048), author name (256), a field name (256) or a field value (1024) is
\* longer than its maximum, validation fails with the length error naming
\* that attribute; with no attribute over its maximum and valid action rows
\* it passes.  (Lengths are String::len, as the checker measures them.)
C12_EmbedAttributeLimits ==
    (Validated /\ Len(Embeds) = 1 /\ Len(Rows) <= 5) =>
        LET e == Embeds[1]
        IN  (EmbedTextLen(e) <= 6000 /\ Len(e.fields) <= 25) =>
                /\ Cardinality(Over(e)) = 1 =>
                      Verdict = Err(CHOOSE x \in Over(e) : TRUE)
                /\ (Over(e) = {} /\ RowsValid) => is_ok(Verdict)

\* An embed whose only attribute over its maximum is a field name of 257,
\* next to a value within its limit, was rejected for the field name.
C12_Witness ==
    /\ Validated
    /\ Len(Embeds) = 1
    /\ Len(Embeds[1].fields) = 1
    /\ len(Embeds[1].fields[1].name) = 257
    /\ Verdict = Err(IntervalError("Embed field name length", 257, from_min_max(0, 256)))


\* C13: a button of either variant whose label is longer than 80, with
\* nothing before it breaking a limit, fails with the label-length error
\* whatever its style, url and custom id are (set or not, valid or not), and
\* its check registers nothing: unless another button carries the same id,
\* the id is not among the context's custom ids.
C13_LabelCheckedBeforeStyle ==
    Validated =>
        \A p \in Pos :
            (CleanBefore(p) /\ is_some(At(p).label) /\ len(unwrap(At(p).label)) > 80) =>
                /\ Verdict = Err(IntervalError("Label length", len(unwrap(At(p).label)),
                                               from_min_max(0, 80)))
                /\ is_some(At(p).custom_id) =>
                      \/ IdOf(At(p)) \notin Context.custom_ids
                      \/ \E q \in Pos : q # p /\ HasId(At(q)) /\ IdOf(At(q)) = IdOf(At(p))

\* A label of 81 was rejected on a regular button with style and custom id,
\* and the id was left unregistered.
C13_Witness ==
    /\ Validated
    /\ Len(Rows) = 1
    /\ Rows[1] = Row("label_81", 0)
    /\ Verdict = Err(IntervalError("Label length", 81, from_min_max(0, 80)))
    /\ Context.custom_ids = {}


\* Every text of the message keeps its limit when measured in characters.
CharsWithinLimits ==
    /\ \A p \in Pos :
          /\ is_some(At(p).label) => CharCount(unwrap(At(p).label)) <= 80
          /\ HasId(At(p)) => CharCount(IdOf(At(p))) \in 1..100
    /\ \A k \in DOMAIN Embeds :
          LET e == Embeds[k]
          IN  /\ is_some(e.title) => CharCount(unwrap(e.title)) <= 256
              /\ is_some(e.description) => CharCount(unwrap(e.description)) <= 4096
              /\ is_some(e.footer) => CharCount(unwrap(e.footer).text) <= 2048
              /\ is_some(e.author) => CharCount(unwrap(e.author).name) <= 256
              /\ \A f \in DOMAIN e.fields :
                    /\ CharCount(e.fields[f].name) <= 256
                    /\ CharCount(e.fields[f].value) <= 1024
    /\ RunningCharCount(Len(Embeds)) <= 6000

\* The names the length errors carry.
LengthErrorNames ==
    {"Label length", "Custom ID length", "Embed title length",
     "Embed description length", "Embed footer text length",
     "Embed author name length", "Embed field name length",
     "Embed field value length", "Character count across all embeds"}

\* C14 (as claimed): the length limits are measured in characters, so a
\* message all of whose texts keep their limits in characters is never
\* rejected with a length error, whatever the bytes of its encoding.
C14_LimitsMeasuredInCharacters ==
    (Validated /\ CharsWithinLimits) =>
        ~(\E n \in LengthErrorNames : IsIntervalError(n))


\* The context a traversal that registered exactly the entities before
\* position p, all of them valid, hands to the check of the button at p.
ContextAt(p) ==
    [custom_ids |-> PriorIds(p),
     embeds_character_counter |-> RunningTextLen(Len(Embeds)),
     button_count_in_action_row |->
        Cardinality({ j \in 1..(p[2] - 1) : HasId(Rows[p[1]][j]) })]

\* The result of the check of embed k after the embeds before it, and of the
\* button at p after the entities before it.
EmbedResult(k) ==
    Embed_check_compatibility(Embeds[k],
        [MessageContext_new EXCEPT
            !.embeds_character_counter = RunningTextLen(k - 1)]).res
ButtonResult(p) == Button_check_compatibility(At(p), ContextAt(p)).res

\* The result of the first check that fails in the traversal order: count of
\* action rows, embeds in insertion order, action rows in insertion order
\* with the components of each row in insertion order; Ok when none fails.
FirstFailure ==
    LET count   == interval_check(action_row_count_interval, Len(Rows),
                                  "Action row count")
        embeds  == { k \in DOMAIN Embeds : is_err(EmbedResult(k)) }
        rows    == { i \in DOMAIN Rows :
                        \/ Rows[i] = <<>>
                        \/ \E j \in DOMAIN Rows[i] : is_err(ButtonResult(<<i, j>>)) }
    IN  IF is_err(count) THEN count
        ELSE IF embeds # {}
             THEN EmbedResult(CHOOSE k \in embeds : \A m \in embeds : k <= m)
        ELSE IF rows # {}
             THEN LET i == CHOOSE r \in rows : \A m \in rows : r <= m
                      bad == { j \in DOMAIN Rows[i] : is_err(ButtonResult(<<i, j>>)) }
                  IN  IF Rows[i] = <<>> THEN Err(EmptyRowError)
                      ELSE ButtonResult(<<i, CHOOSE j \in bad : \A m \in bad : j <= m>>)
        ELSE Ok

\* C15: validation returns one result, and for an invalid message it is the
\* error of the first failing check in the traversal order (action-row
\* count, embeds in order, rows in order with their components in order); a
\* violation later in the order never replaces or masks an earlier one.
C15_FirstErrorInTraversalOrder ==
    Validated => Verdict = FirstFailure

\* A message with two failing buttons of different errors, the second in a
\* later row, was rejected with the error of the first.
C15_Witness ==
    /\ Validated
    /\ Len(Rows) <= 5
    /\ \E p, q \in Pos :
          /\ p[1] < q[1]
          /\ is_err(ButtonResult(p))
          /\ is_err(ButtonResult(q))
          /\ ButtonResult(p) # ButtonResult(q)
          /\ Verdict = ButtonResult(p)


\* C16: completeness of the checker.  Every message built through the
\* builder that keeps all limits (at most 5 action rows, none empty, at most
\* 5 buttons per row, labels within 80, regular buttons with a style and a
\* unique custom id of length 1..100, link buttons with a url, embed
\* attributes within their limits, at most 25 fields per embed, cumulative
\* embed text at most 6000) validates with no error, whatever its content,
\* username and avatar url and the image and thumbnail of its embeds.
\* (Lengths are String::len, as the checker measures them.)
C16_ValidMessagesPass ==
    (Validated /\ RowsValid /\ EmbedsValid) => is_ok(Verdict)

\* The message of content, username, avatar url and one embed with title,
\* description, footer, image, thumbnail, author and one field passed.
C16_Witness ==
    /\ Validated
    /\ is_some(message.content) /\ is_some(message.username)
    /\ is_some(message.avatar_url)
    /\ Rows = <<>>
    /\ Embeds = <<EmbedOf("basic").embed>>
    /\ is_some(Embeds[1].image) /\ is_some(Embeds[1].thumbnail)
    /\ is_ok(Verdict)


\* The class and kind of an error, which a caller can test without reading
\* its text.
ClassOf(error) ==
    [class |-> error.class,
     kind  |-> IF "kind" \in DOMAIN error THEN error.kind ELSE "none"]

\* The class and kind WebhookClient::send gives to a validation failure.
ValidationErrorClass == ClassOf(IoError("InvalidInput", StyleError))

\* C17 (as claimed): validation failures and transport failures are disjoint
\* error classes, so an error of the class and kind of a validation failure
\* is only ever returned by a send that failed in validation, before any
\* request was made.
C17_ValidationAndTransportErrorsDisjoint ==
    (is_some(result) /\ ~unwrap(result).ok
        /\ ClassOf(unwrap(result).error) = ValidationErrorClass) =>
            (requests = <<>> /\ is_some(checked) /\ is_err(Verdict))


\* C19: for every interval [min, max] and value v, contains(v) is true
\* exactly when min <= v and v <= max, both bounds inclusive (so an interval
\* with min > max contains nothing), and interval_check passes exactly then.
C19_ContainsIsInclusive ==
    is_some(probe) =>
        LET p  == unwrap(probe)
            inside == p.interval.min_allowed <= p.value
                      /\ p.value <= p.interval.max_allowed
        IN  /\ is_some(p.answer) => (unwrap(p.answer) <=> inside)
            /\ is_some(p.check) => (is_ok(unwrap(p.check)) <=> inside)
            /\ (is_some(p.answer) /\ p.interval.min_allowed > p.interval.max_allowed)
                  => unwrap(p.answer) = FALSE

\* A value equal to the upper bound of an interval with min below max was
\* found inside it, and interval_check passed.
C19_Witness ==
    /\ is_some(probe)
    /\ unwrap(probe).interval.min_allowed < unwrap(probe).interval.max_allowed
    /\ unwrap(probe).value = unwrap(probe).interval.max_allowed
    /\ unwrap(probe).answer = Some(TRUE)
    /\ unwrap(probe).check = Some(Ok)


\* C18: each call of WebhookClient::send validates with a context of its
\* own, so under every interleaving of the calls the verdict of each equals
\* the verdict of validating its message alone with an empty context: two
\* calls whose messages use the same custom id both pass, and so do two
\* calls whose embeds hold 4096 characters each.
C18_SendsValidateIndependently ==
    \A s \in DOMAIN sends :
        is_some(sends[s].checked) =>
            /\ unwrap(sends[s].checked) =
                  Message_check_compatibility(sends[s].message, MessageContext_new).res
            /\ sends[s].message.action_rows = <<Row("first_id", 0)>> =>
                  is_ok(unwrap(sends[s].checked))
            /\ sends[s].message.embeds = <<EmbedOf("desc_max").embed>> =>
                  is_ok(unwrap(sends[s].checked))

\* Two calls whose messages use the same custom id were both validated, and
\* both passed.
C18_Witness ==
    /\ \A s \in 1..2 :
          /\ sends[s].message.action_rows = <<Row("first_id", 0)>>
          /\ sends[s].checked = Some(Ok)
    /\ \A s \in 1..2 : unwrap(sends[s].message_context).custom_ids = {IdAt(0, 1)}


\* C20 (as claimed): validation short-circuits, so after a failed validation
\* the context holds only what was registered up to and including the first
\* failing entity: the embed text up to the first failing embed, and the
\* custom ids of the buttons up to the first failing button or empty row.
C20_NothingRegisteredAfterFirstFailure ==
    (Validated /\ is_err(Verdict) /\ Len(Rows) <= 5) =>
        /\ \A k \in DOMAIN Embeds :
              (is_err(EmbedResult(k)) /\ \A j \in 1..(k - 1) : is_ok(EmbedResult(j))) =>
                  /\ Context.embeds_character_counter = RunningTextLen(k)
                  /\ Context.custom_ids = {}
        /\ \A p \in Pos :
              (CleanBefore(p) /\ ButtonFault(p) # "none") =>
                  Context.custom_ids \subseteq
                      PriorIds(p) \cup (IF HasId(At(p)) THEN {IdOf(At(p))} ELSE {})
        /\ \A i \in DOMAIN Rows :
              (CleanBeforeRow(i) /\ Rows[i] = <<>>) =>
                  Context.custom_ids \subseteq
                      { IdOf(At(q)) : q \in { r \in Pos : r[1] < i /\ HasId(At(r)) } }


\* The result of a length limit on an attribute that may be absent.
LimitResult(present, n, max, field_name) ==
    IF present /\ n > max
    THEN Err(IntervalError(field_name, n, from_min_max(0, max)))
    ELSE Ok

\* The checks of one embed in their order, each with its result, for an
\* embed met when the running total is `before`: cumulative total, field
\* count, title, description, author name, footer text, then the fields in
\* insertion order.
EmbedChecks(e, before) ==
    << LimitResult(TRUE, before + EmbedTextLen(e), 6000,
                   "Character count across all embeds"),
       LimitResult(TRUE, Len(e.fields), 25, "Field count"),
       LimitResult(is_some(e.title),
                   IF is_some(e.title) THEN len(unwrap(e.title)) ELSE 0,
                   256, "Embed title length"),
       LimitResult(is_some(e.description),
                   IF is_some(e.description) THEN len(unwrap(e.description)) ELSE 0,
                   4096, "Embed description length"),
       LimitResult(is_some(e.author),
                   IF is_some(e.author) THEN len(unwrap(e.author).name) ELSE 0,
                   256, "Embed author name length"),
       LimitResult(is_some(e.footer),
                   IF is_some(e.footer) THEN len(unwrap(e.footer).text) ELSE 0,
                   2048, "Embed footer text length") >>
    \o [k \in 1..Len(e.fields) |->
            IF len(e.fields[k].value) > 1024
            THEN LimitResult(TRUE, len(e.fields[k].value), 1024,
                             "Embed field value length")
            ELSE LimitResult(TRUE, len(e.fields[k].name), 256,
                             "Embed field name length")]

\* The first error of a sequence of results; Ok when there is none.
FirstError(results) ==
    LET failing == { k \in DOMAIN results : is_err(results[k]) }
    IN  IF failing = {} THEN Ok
        ELSE results[CHOOSE k \in failing : \A m \in failing : k <= m]

\* The first error of the checks of embed k of the message.
EmbedFirstError(k) == FirstError(EmbedChecks(Embeds[k], RunningTextLen(k - 1)))

\* C21: within one embed the checks run in the order cumulative total, field
\* count, title, description, author name, footer text, fields in insertion
\* order, and the first failing one is the error: for a message with at most
\* 5 action rows, the first embed with a failing check makes validation fail
\* with the first error of that embed in this order; an embed over the total
\* and over one of its own limits reports the total.
C21_EmbedCheckOrder ==
    (Validated /\ Len(Rows) <= 5) =>
        \A k \in DOMAIN Embeds :
            ( /\ is_err(EmbedFirstError(k))
              /\ \A j \in 1..(k - 1) : is_ok(EmbedFirstError(j)) ) =>
                Verdict = EmbedFirstError(k)

\* An embed with a description of 4097 and a footer of 2048, over the total
\* and over the description limit, was rejected for the total.
C21_Witness ==
    /\ Validated
    /\ Embeds = <<EmbedOf("total_and_desc").embed>>
    /\ len(unwrap(Embeds[1].description)) > 4096
    /\ Verdict = Err(IntervalError("Character count across all embeds", 6145,
                                   from_min_max(0, 6000)))


\* The length of the text of an embed: the lengths of title, description,
\* footer text and author name, 0 for an absent one, and one position per
\* byte of each field's name and value.
TextLength(e) ==
      (IF is_some(e.title) THEN len(unwrap(e.title)) ELSE 0)
    + (IF is_some(e.description) THEN len(unwrap(e.description)) ELSE 0)
    + (IF is_some(e.footer) THEN len(unwrap(e.footer).text) ELSE 0)
    + (IF is_some(e.author) THEN len(unwrap(e.author).name) ELSE 0)
    + Cardinality(UNION { { <<k, i>> :
                              i \in 1..(len(e.fields[k].name) + len(e.fields[k].value)) } :
                          k \in DOMAIN e.fields })

\* C22: register_embed adds the full text length of the embed (absent
\* attributes contribute 0) to the running total before it compares the
\* total with 6000 and does not take the addition back: called on a context
\* with any previous total, it leaves the previous total plus the length of
\* the embed's text, and returns the limit error carrying that sum exactly
\* when the sum is above 6000; otherwise the context is as it was.
C22_RegisterEmbedAccumulates ==
    Validated =>
        \A k \in DOMAIN Embeds :
        \A length \in {TextLength(Embeds[k])} :
        \A previous \in {0, RunningTextLen(k - 1), 6000} :
            LET ctx == [Context EXCEPT !.embeds_character_counter = previous]
                r   == register_embed(ctx, Embeds[k])
                sum == previous + length
            IN  /\ r.ctx = [ctx EXCEPT !.embeds_character_counter = sum]
                /\ r.res = IF sum > 6000
                           THEN Err(IntervalError("Character count across all embeds",
                                                  sum, from_min_max(0, 6000)))
                           ELSE Ok

\* The second of two embeds with 4096 characters each was refused, and the
\* context was left with the total of both.
C22_Witness ==
    /\ Validated
    /\ Len(Embeds) = 2
    /\ TextLength(Embeds[1]) = 4096
    /\ is_ok(EmbedFirstError(1))
    /\ IsIntervalError("Character count across all embeds")
    /\ Context.embeds_character_counter = 8192


\* C23: register_button checks id length, then uniqueness, then the per-row
\* count.  Called with the id of any button of the message on a context with
\* any counter and with or without that id already seen: an id of a length
\* outside [1, 100] fails with the length error and the context is unchanged;
\* an id already seen fails with the duplicate error and the context is
\* unchanged (the counter is not incremented); otherwise the id is inserted,
\* the counter incremented, and the result is the count error exactly when
\* the counter is then above 5.
C23_RegisterButtonOrder ==
    Validated =>
        \A p \in { q \in Pos : is_some(At(q).custom_id) } :
        \A count \in {0, 4, 5} :
        \A prior \in {PriorIds(p)} :
        \A seen \in { prior \cup {IdOf(At(p))}, prior \ {IdOf(At(p))} } :
            LET id  == IdOf(At(p))
                ctx == [Context EXCEPT !.custom_ids = seen,
                                       !.button_count_in_action_row = count]
                r   == register_button(ctx, id)
            IN  IF len(id) < 1 \/ len(id) > 100
                THEN /\ r.res = Err(IntervalError("Custom ID length", len(id),
                                                  from_min_max(1, 100)))
                     /\ r.ctx = ctx
                ELSE IF id \in seen
                THEN /\ r.res = Err(DuplicateError(id))
                     /\ r.ctx = ctx
                ELSE /\ r.ctx = [ctx EXCEPT !.custom_ids = seen \cup {id},
                                           !.button_count_in_action_row = count + 1]
                     /\ r.res = IF count + 1 > 5
                                THEN Err(IntervalError("Button count", count + 1,
                                                       from_min_max(0, 5)))
                                ELSE Ok

\* A sixth button in a row that reuses the id of the first was rejected as a
\* duplicate, with the counter left at 5.
C23_Witness ==
    /\ Validated
    /\ Rows = <<Row("reg5_dup", 0)>>
    /\ Len(Rows[1]) = 6
    /\ Verdict = Err(DuplicateError(IdAt(0, 1)))
    /\ Context.button_count_in_action_row = 5
    /\ Cardinality(Context.custom_ids) = 5


\* C24: validating a link button leaves the context unchanged, accepted or
\* rejected: checked on the context of the pass or on an empty one, it
\* inserts no custom id and changes neither the per-row counter nor the embed
\* total.  A link button built through the builder carries no custom id, and
\* a regular button carries no url.
C24_LinkButtonLeavesContext ==
    Validated =>
        \A p \in Pos :
            LET b == At(p)
            IN  IF is_some(b.style) /\ unwrap(b.style) = "Link"
                THEN /\ is_none(b.custom_id)
                     /\ \A ctx \in {Context, MessageContext_new} :
                           Button_check_compatibility(b, ctx).ctx = ctx
                ELSE is_none(b.url)

\* A row of six link buttons passed and left no id and no count behind; the
\* buttons were accepted.
C24_Witness ==
    /\ Validated
    /\ Rows = <<Row("link6", 0)>>
    /\ \A j \in 1..6 : is_ok(Button_check_compatibility(Rows[1][j], Context).res)
    /\ is_ok(Verdict)
    /\ Context.custom_ids = {}
    /\ Context.button_count_in_action_row = 0


\* C25: validation is read-only on the entity tree.  A step that runs the
\* validation pass, and every step after the build phase, leaves the message
\* as it was (content, embeds, action rows, buttons and their order), pass or
\* fail; and the request WebhookClient::send hands over is the serialization
\* of exactly the message it validated.
C25_ValidationReadOnly ==
    [][ /\ (validations' # validations \/ pc # "building") => message' = message
        /\ (validations' # validations /\ requests' # requests) =>
              requests' = Append(requests, Message_serialize(message)) ]_vars

\* A message with an action row passed validation and the request in flight
\* is its serialization, rows included.
C25_Witness ==
    /\ Validated
    /\ is_ok(Verdict)
    /\ Rows # <<>>
    /\ requests = <<Message_serialize(message)>>
    /\ Len(requests[1].components) = Len(Rows)


\* send or send_message of WebhookClient has returned on a response.
Answered ==
    /\ pc = "done"
    /\ entry \in {"WebhookClient::send", "WebhookClient::send_message"}
    /\ is_some(response)

\* C26 (as claimed): send_message, and send after a successful validation,
\* returns Ok(true) exactly when the response status is 204; for every other
\* status it returns an error carrying the text of the response body; it
\* never returns Ok(false).
C26_OkExactlyOn204ElseBodyText ==
    Answered =>
        LET r == unwrap(result)
            status == unwrap(response).status
        IN  /\ r.ok <=> status = NO_CONTENT
            /\ r.ok => r.value = "true"
            /\ ~r.ok => r.error = IoError("InvalidInput", ResponseText(status))

\* C26 (amended): Ok(true) exactly when the status is 204, never Ok(false),
\* and an error for every other status, other 2xx included; the error is the
\* InvalidInput error carrying the body text when the body is UTF-8 text, the
\* InvalidInput error carrying "Error reading Discord API error message:"
\* and the decoding error when the body is not UTF-8, and the HTTP client's
\* own error when reading the body fails.
C26_OkExactlyOn204 ==
    Answered =>
        LET r == unwrap(result)
            status == unwrap(response).status
            body == unwrap(response).body
        IN  /\ r.ok <=> status = NO_CONTENT
            /\ r.ok => r.value = "true"
            /\ ~r.ok =>
                  /\ is_some(body)
                  /\ r.error = CASE unwrap(body) = "text" ->
                                    IoError("InvalidInput", ResponseText(status))
                                [] unwrap(body) = "not_utf8" ->
                                    IoError("InvalidInput", Utf8ErrorText(status))
                                [] unwrap(body) = "unreadable" ->
                                    TransportError("hyper::Error")

\* WebhookClient::send validated a message, sent it, and returned the body
\* text as an error on a 200 response.
C26_Witness ==
    /\ Answered
    /\ entry = "WebhookClient::send" /\ checked = Some(Ok)
    /\ response = Some([status |-> 200, body |-> Some("text")])
    /\ result = Some(ReturnErr(IoError("InvalidInput", ResponseText(200))))

=============================================================================
